---- MODULE Spec2Model ----
(***************************************************************************)
(* A model of the lab5 IoT control plane: the SmartLightDevice and its     *)
(* FastAPI routes (devices/smart_light.py), the LoggingDeviceDecorator     *)
(* (devices/base_device.py) and the IOTFacade (controller/iot_facade.py).  *)
(*                                                                         *)
(* Python values that travel through the loosely typed **kwargs bags are   *)
(* modelled as tagged records (IntV, StrV, FloatV, NoneV) so that the         *)
(* comparisons of the code keep Python's semantics: == never raises, <=    *)
(* between an int and None or a str raises TypeError, <= between an int    *)
(* and a float compares numerically.                                       *)
(***************************************************************************)
EXTENDS Integers, Sequences, FiniteSets, TLC

VARIABLES
    light,      \* SmartLightDevice.state of the light L1: [is_on, brightness]
    twin,       \* an identical light on which the same calls are made directly
    wrap,       \* number of LoggingDeviceDecorator layers built around the light
    log,        \* the lines printed by the decorators during the last call
    devices,    \* IOTFacade.devices, an insertion-ordered dict: Seq of [id, addr]
    lastReg,    \* history: the address of the latest register_device per identity
    sent,       \* the HTTP requests issued by the facade during the last operation
    routed,     \* the perform_action calls made by the light's routes in the last operation
    last        \* the last operation, its arguments and what it returned

vars == <<light, twin, wrap, log, devices, lastReg, sent, routed, last>>

-----------------------------------------------------------------------------
(* Bounds of the model *)

MaxDepth == 2       \* decorator layers
Slack == 1          \* how far the tried brightness levels leave the legal range

(* Constants of the program *)

MinLevel == 0
MaxLevel == 100
DefaultBrightness == 50
DefaultPort == 8002
HttpOk == 200
HttpBadRequest == 400
HttpNotFound == 404
HttpMethodNotAllowed == 405
HttpUnprocessable == 422
HttpServerError == 500
HttpErrorEnd == 600

-----------------------------------------------------------------------------
(* Python values *)

IntV(n) == [t |-> "int", i |-> n, s |-> ""]
StrV(x) == [t |-> "str", i |-> 0, s |-> x]
FloatV(twice) == [t |-> "float", i |-> twice, s |-> ""]   \* the float twice/2
NoneV == [t |-> "none", i |-> 0, s |-> ""]

IsNumber(v) == v.t \in {"int", "float"}
Twice(v) == IF v.t = "int" THEN 2 * v.i ELSE v.i

\* str(v), as used by the facade to build the URL path
PyStr(v) ==
    CASE v.t = "int" -> ToString(v.i)
      [] v.t = "str" -> v.s
      [] v.t = "none" -> "None"
      [] v.t = "float" ->
            LET a == IF v.i < 0 THEN 0 - v.i ELSE v.i
            IN (IF v.i < 0 THEN "-" ELSE "") \o ToString(a \div 2) \o "."
                   \o (IF a % 2 = 1 THEN "5" ELSE "0")

\* the conversion FastAPI applies to the path parameter `level: int`:
\* <<n>> when the segment is the decimal form of n, <<>> (a 422) otherwise
ParseRange == (MinLevel - Slack - 1) .. (MaxLevel + Slack + 1)
ParseInt(seg) ==
    IF \E n \in ParseRange : ToString(n) = seg
    THEN <<CHOOSE n \in ParseRange : ToString(n) = seg>>
    ELSE <<>>

\* a **kwargs bag is an ordered sequence of [k, v]; kwargs.get(name)
KwGet(kw, name) ==
    IF \E j \in 1..Len(kw) : kw[j].k = name
    THEN kw[CHOOSE j \in 1..Len(kw) : kw[j].k = name].v
    ELSE NoneV

Kw1(name, v) == <<[k |-> name, v |-> v]>>

-----------------------------------------------------------------------------
(* Inputs *)

LevelInts == {MinLevel - Slack, MinLevel, MaxLevel, MaxLevel + Slack}
LevelVals == {IntV(n) : n \in LevelInts} \cup {FloatV(MaxLevel + 1), StrV("high")}
StateVals == {StrV("on"), StrV("off"), StrV("toggle")}
StateBags == {Kw1("state", v) : v \in StateVals}
LevelBags == {Kw1("level", v) : v \in LevelVals}
BothBag == <<[k |-> "level", v |-> IntV(MaxLevel)], [k |-> "state", v |-> StrV("on")]>>
\* the calls tried: an action name and a **kwargs bag
Call(action, kw) == [action |-> action, kw |-> kw]
Calls ==
    {Call("power", kw) : kw \in StateBags \cup {<<>>, BothBag, Kw1("level", IntV(MinLevel))}}
        \cup {Call("brightness", kw) : kw \in LevelBags \cup {<<>>, BothBag, Kw1("state", StrV("on"))}}
        \cup {Call("blink", kw) : kw \in {<<>>, Kw1("state", StrV("on"))}}

LightId == "L1"
OtherId == "T1"
DeviceIds == {LightId, OtherId}
LightAddr == [host |-> "127.0.0.1", port |-> DefaultPort]
OtherAddr == [host |-> "127.0.0.1", port |-> DefaultPort + 1]
Addrs == {LightAddr, OtherAddr}

-----------------------------------------------------------------------------
(* SmartLightDevice *)

LightState == [is_on |-> FALSE, brightness |-> IntV(DefaultBrightness)]

Result(st, exc, ret) == [st |-> st, exc |-> exc, ret |-> ret, log |-> <<>>]

get_status(st) ==
    [device_id |-> LightId,
     type |-> "smart_light",
     is_on |-> st.is_on,
     brightness |-> st.brightness,
     connection |-> LightAddr.host \o ":" \o ToString(LightAddr.port)]

\* the level test of perform_action: 0 <= level <= 100 on a number
InRange(level) == 2 * MinLevel <= Twice(level) /\ Twice(level) <= 2 * MaxLevel

\* faulty variant: the "off" branch copied from the "on" branch without its value changed
perform_action_StuckOn(st, action, kw) ==
    IF action = "power" THEN
        IF KwGet(kw, "state") \in {StrV("on"), StrV("off")}
        THEN Result([st EXCEPT !.is_on = TRUE], "", TRUE)
        ELSE Result(st, "", FALSE)
    ELSE IF action = "brightness" THEN
        IF ~IsNumber(KwGet(kw, "level")) THEN Result(st, "TypeError", FALSE)
        ELSE IF InRange(KwGet(kw, "level"))
             THEN Result([st EXCEPT !.brightness = KwGet(kw, "level")], "", TRUE)
        ELSE Result(st, "", FALSE)
    ELSE Result(st, "", FALSE)

\* faulty variant: the upper end of the range excluded (0 <= level < 100)
perform_action_OffByOne(st, action, kw) ==
    IF action = "power" THEN
        IF KwGet(kw, "state") = StrV("on") THEN Result([st EXCEPT !.is_on = TRUE], "", TRUE)
        ELSE IF KwGet(kw, "state") = StrV("off") THEN Result([st EXCEPT !.is_on = FALSE], "", TRUE)
        ELSE Result(st, "", FALSE)
    ELSE IF action = "brightness" THEN
        IF ~IsNumber(KwGet(kw, "level")) THEN Result(st, "TypeError", FALSE)
        ELSE IF InRange(KwGet(kw, "level")) /\ Twice(KwGet(kw, "level")) < 2 * MaxLevel
             THEN Result([st EXCEPT !.brightness = KwGet(kw, "level")], "", TRUE)
        ELSE Result(st, "", FALSE)
    ELSE Result(st, "", FALSE)

perform_action(st, action, kw) ==
    IF action = "power" THEN
        LET state == KwGet(kw, "state") IN
        IF state = StrV("on") THEN Result([st EXCEPT !.is_on = TRUE], "", TRUE)
        ELSE IF state = StrV("off") THEN Result([st EXCEPT !.is_on = FALSE], "", TRUE)
        ELSE Result(st, "", FALSE)
    ELSE IF action = "brightness" THEN
        LET level == KwGet(kw, "level") IN
        IF ~IsNumber(level) THEN Result(st, "TypeError", FALSE)
        ELSE IF InRange(level)
             THEN Result([st EXCEPT !.brightness = level], "", TRUE)
        ELSE Result(st, "", FALSE)
    ELSE Result(st, "", FALSE)

-----------------------------------------------------------------------------
(* LoggingDeviceDecorator: handle 0 is the bare light, handle d > 0 is the *)
(* decorator whose _device is handle d - 1.                                *)

RECURSIVE Logging_get_status(_, _)
Logging_get_status(d, st) ==
    IF d = 0 THEN [ret |-> get_status(st), log |-> <<>>]
    ELSE LET inner == Logging_get_status(d - 1, st)
         IN [inner EXCEPT !.log = <<[what |-> "Getting status", id |-> LightId]>> \o @]

\* faulty variant: a decorator that forwards the action without its **kwargs
Logging_perform_action_DropsParams(d, st, action, kw) ==
    IF d = 0 THEN perform_action(st, action, kw)
    ELSE [perform_action(st, action, <<>>) EXCEPT
             !.log = [j \in 1..d |-> [what |-> "Performing", action |-> action,
                                      id |-> LightId, params |-> kw]]]

RECURSIVE Logging_perform_action(_, _, _, _)
Logging_perform_action(d, st, action, kw) ==
    IF d = 0 THEN perform_action(st, action, kw)
    ELSE LET inner == Logging_perform_action(d - 1, st, action, kw)
         IN [inner EXCEPT !.log = <<[what |-> "Performing", action |-> action,
                                     id |-> LightId, params |-> kw]>> \o @]

-----------------------------------------------------------------------------
(* The light's FastAPI application (SmartLightDevice._setup_routes).  A    *)
(* request is a method and the path split into its segments; the answer is *)
(* the new light state, the status code, the JSON body and the             *)
(* perform_action calls the route made.                                    *)

EmptyDict == [f \in {} |-> 0]
Success == [status |-> "success"]

Answer(st, code, body, calls) == [st |-> st, code |-> code, body |-> body, routed |-> calls]

RouteCall(action, kw, r) == [action |-> action, kw |-> kw, exc |-> r.exc, ret |-> r.ret]

route_status(st) == Answer(st, HttpOk, get_status(st), <<>>)

\* the body of a route once perform_action has returned r: an exception is a
\* 500, a false result the route's HTTPException(400), a true result the success
RouteAnswer(action, kw, r) ==
    IF r.exc # "" THEN Answer(r.st, HttpServerError, EmptyDict, <<RouteCall(action, kw, r)>>)
    ELSE IF ~r.ret THEN Answer(r.st, HttpBadRequest, EmptyDict, <<RouteCall(action, kw, r)>>)
    ELSE Answer(r.st, HttpOk, Success, <<RouteCall(action, kw, r)>>)

set_power(st, state) ==
    RouteAnswer("power", Kw1("state", StrV(state)),
                perform_action(st, "power", Kw1("state", StrV(state))))

\* level is the path segment converted by ParseInt: <<>> is FastAPI's 422
BrightnessAnswer(st, level) ==
    IF level = <<>> THEN Answer(st, HttpUnprocessable, EmptyDict, <<>>)
    ELSE RouteAnswer("brightness", Kw1("level", IntV(level[1])),
                     perform_action(st, "brightness", Kw1("level", IntV(level[1]))))

set_brightness(st, seg) == BrightnessAnswer(st, ParseInt(seg))

LightApp(st, method, path) ==
    IF path = <<"status">> THEN
        IF method = "GET" THEN route_status(st)
        ELSE Answer(st, HttpMethodNotAllowed, EmptyDict, <<>>)
    ELSE IF Len(path) = 2 /\ path[1] = "power" THEN
        IF method = "POST" THEN set_power(st, path[2])
        ELSE Answer(st, HttpMethodNotAllowed, EmptyDict, <<>>)
    ELSE IF Len(path) = 2 /\ path[1] = "brightness" THEN
        IF method = "POST" THEN set_brightness(st, path[2])
        ELSE Answer(st, HttpMethodNotAllowed, EmptyDict, <<>>)
    ELSE Answer(st, HttpNotFound, EmptyDict, <<>>)

-----------------------------------------------------------------------------
(* The network as the facade sees it through requests.get / requests.post: *)
(* a request times out, is refused, or is answered.  The light answers at  *)
(* LightAddr; whatever listens at another address answers with a response  *)
(* the environment picks.                                                  *)

OtherStatus == [device_id |-> OtherId, type |-> "thermostat"]
ForeignResponses ==
    {[code |-> HttpOk, body |-> OtherStatus],
     [code |-> HttpOk, body |-> EmptyDict],
     [code |-> HttpServerError, body |-> EmptyDict]}
NoResponse == [code |-> 0, body |-> EmptyDict]
Failures == {[net |-> n, resp |-> NoResponse] : n \in {"Timeout", "ConnectionError"}}
\* what may happen to a request sent to addr
Outcomes(addr) ==
    IF addr = LightAddr THEN Failures \cup {[net |-> "ok", resp |-> NoResponse]}
    ELSE Failures \cup {[net |-> "ok", resp |-> r] : r \in ForeignResponses}

Request(method, addr, path) == [method |-> method, host |-> addr.host, port |-> addr.port, path |-> path]

\* requests.get / requests.post followed by response.raise_for_status()
Served(st, method, addr, path, out) ==
    IF out.net # "ok" THEN Answer(st, 0, EmptyDict, <<>>)
    ELSE IF addr = LightAddr THEN LightApp(st, method, path)
    ELSE Answer(st, out.resp.code, out.resp.body, <<>>)

\* faulty variant: the response is never checked (no raise_for_status call)
raise_for_status_Never(code) == ""

raise_for_status(code) ==
    IF HttpBadRequest <= code /\ code < HttpErrorEnd THEN "HTTPError" ELSE ""

Raised(out, a) ==
    [st |-> a.st, code |-> a.code, body |-> a.body, routed |-> a.routed,
     exc |-> IF out.net # "ok" THEN out.net ELSE raise_for_status(a.code)]

Http(st, method, addr, path, out) == Raised(out, Served(st, method, addr, path, out))

-----------------------------------------------------------------------------
(* IOTFacade.  self.devices is a dict: insertion ordered, keys unique.     *)

DictHas(reg, id) == \E j \in 1..Len(reg) : reg[j].id = id
DictGet(reg, id) == reg[CHOOSE j \in 1..Len(reg) : reg[j].id = id].addr
\* faulty variant: an identity already registered keeps its first address (setdefault)
DictSet_KeepFirst(reg, id, addr) ==
    IF DictHas(reg, id) THEN reg ELSE Append(reg, [id |-> id, addr |-> addr])

DictSet(reg, id, addr) ==
    IF DictHas(reg, id)
    THEN [j \in 1..Len(reg) |-> IF reg[j].id = id THEN [id |-> id, addr |-> addr] ELSE reg[j]]
    ELSE Append(reg, [id |-> id, addr |-> addr])

\* what may happen to the request the facade sends for identity id, if it sends one
OutcomesFor(reg, id) ==
    IF DictHas(reg, id) THEN Outcomes(DictGet(reg, id)) ELSE {[net |-> "none", resp |-> NoResponse]}
OutcomesAll(reg) ==
    {outs \in [1..Len(reg) -> UNION {Outcomes(a) : a \in Addrs}] :
        \A j \in 1..Len(reg) : outs[j] \in Outcomes(reg[j].addr)}

\* an optional value: <<>> is None, <<v>> is v
None == <<>>
Truthy(opt) == opt # None /\ DOMAIN opt[1] # {}

\* get_device_status(device_id) under the network outcome out
\* except requests.RequestException: the exceptions the facade swallows
RequestException == {"Timeout", "ConnectionError", "HTTPError"}
Uncaught(exc) == IF exc \in RequestException THEN "" ELSE exc

StatusResult(addr, r) ==
    [ret |-> IF r.exc # "" THEN None ELSE <<r.body>>,
     sent |-> <<Request("GET", addr, <<"status">>)>>]

DeviceStatus(reg, st, id, out) ==
    IF ~DictHas(reg, id) THEN [ret |-> None, sent |-> <<>>]
    ELSE StatusResult(DictGet(reg, id), Http(st, "GET", DictGet(reg, id), <<"status">>, out))

RECURSIVE StrAll(_)
StrAll(kw) == IF kw = <<>> THEN <<>> ELSE <<PyStr(Head(kw).v)>> \o StrAll(Tail(kw))

\* perform_device_action(device_id, action, **kwargs) under the outcome out
\* faulty variant: the names of the parameters are put on the wire, not their values
UrlPath_Names(action, kw) == <<action>> \o [j \in 1..Len(kw) |-> kw[j].k]

UrlPath(action, kw) == <<action>> \o StrAll(kw)

ActionResult(addr, path, r) ==
    [ret |-> (r.exc = ""), exc |-> Uncaught(r.exc), code |-> r.code,
     sent |-> <<Request("POST", addr, path)>>, st |-> r.st, routed |-> r.routed]

\* faulty variant: an unknown identity falls back to the default address
\* (self.devices.get(device_id, default)) instead of returning at once
DeviceAction_DefaultAddr(reg, st, id, action, kw, out) ==
    IF ~DictHas(reg, id)
    THEN ActionResult(LightAddr, UrlPath(action, kw),
                      Http(st, "POST", LightAddr, UrlPath(action, kw), out))
    ELSE ActionResult(DictGet(reg, id), UrlPath(action, kw),
                      Http(st, "POST", DictGet(reg, id), UrlPath(action, kw), out))

DeviceAction(reg, st, id, action, kw, out) ==
    IF ~DictHas(reg, id)
    THEN [ret |-> FALSE, exc |-> "", code |-> 0, sent |-> <<>>, st |-> st, routed |-> <<>>]
    ELSE ActionResult(DictGet(reg, id), UrlPath(action, kw),
                      Http(st, "POST", DictGet(reg, id), UrlPath(action, kw), out))

\* get_all_status under the outcomes outs, one per entry of the registry:
\* each[j] is what get_device_status returned for the j-th identity
Unwrap(kept) == [j \in 1..Len(kept) |-> kept[j][1]]

Collected(calls) ==
    [statuses |-> Unwrap(SelectSeq([j \in DOMAIN calls |-> calls[j].ret], Truthy)),
     each |-> [j \in DOMAIN calls |-> calls[j].ret],
     sent |-> [j \in DOMAIN calls |-> calls[j].sent[1]]]

AllStatus(reg, st, outs) ==
    Collected([j \in 1..Len(reg) |-> DeviceStatus(reg, st, reg[j].id, outs[j])])

-----------------------------------------------------------------------------
Init ==
    /\ light = LightState
    /\ twin = LightState
    /\ wrap = 0
    /\ log = <<>>
    /\ devices = <<>>
    /\ lastReg = [id \in DeviceIds |-> <<>>]
    /\ sent = <<>>
    /\ routed = <<>>
    /\ last = [op |-> "init"]

Decorate ==
    /\ wrap < MaxDepth
    /\ wrap' = wrap + 1
    /\ log' = <<>>
    /\ last' = [op |-> "decorate"]
    /\ UNCHANGED <<light, twin, devices, lastReg, sent, routed>>

Call_get_status ==
    \E d \in 0..wrap :
        \E r \in {Logging_get_status(d, light)} :
        /\ log' = r.log
        /\ last' = [op |-> "get_status", depth |-> d, ret |-> r.ret,
                    direct |-> get_status(twin)]
        /\ UNCHANGED <<light, twin, wrap, devices, lastReg, sent, routed>>

Call_perform_action ==
    \E d \in 0..wrap, c \in Calls :
        \E r \in {Logging_perform_action(d, light, c.action, c.kw)},
           t \in {perform_action(twin, c.action, c.kw)} :
        /\ light' = r.st
        /\ twin' = t.st
        /\ log' = r.log
        /\ last' = [op |-> "perform_action", depth |-> d, action |-> c.action, kw |-> c.kw,
                    exc |-> r.exc, ret |-> r.ret,
                    direct |-> [exc |-> t.exc, ret |-> t.ret]]
        /\ UNCHANGED <<wrap, devices, lastReg, sent, routed>>

register_device ==
    \E id \in DeviceIds, addr \in Addrs :
        /\ devices' = DictSet(devices, id, addr)
        /\ lastReg' = [lastReg EXCEPT ![id] = <<addr>>]
        /\ sent' = <<>>
        /\ routed' = <<>>
        /\ log' = <<>>
        /\ last' = [op |-> "register_device", id |-> id, addr |-> addr,
                    ret |-> "Device " \o id \o " registered successfully"]
        /\ UNCHANGED <<light, twin, wrap>>

get_device_status ==
    \E id \in DeviceIds : \E out \in OutcomesFor(devices, id) :
        \E r \in {DeviceStatus(devices, light, id, out)} :
        /\ sent' = r.sent
        /\ routed' = <<>>
        /\ log' = <<>>
        /\ last' = [op |-> "get_device_status", id |-> id, out |-> out, ret |-> r.ret]
        /\ UNCHANGED <<light, twin, wrap, devices, lastReg>>

perform_device_action ==
    \E id \in DeviceIds, c \in Calls : \E out \in OutcomesFor(devices, id) :
        \E r \in {DeviceAction(devices, light, id, c.action, c.kw, out)} :
        /\ light' = r.st
        /\ twin' = IF r.routed = <<>> THEN twin
                   ELSE perform_action(twin, r.routed[1].action, r.routed[1].kw).st
        /\ sent' = r.sent
        /\ routed' = r.routed
        /\ log' = <<>>
        /\ last' = [op |-> "perform_device_action", id |-> id, action |-> c.action,
                    kw |-> c.kw, out |-> out, exc |-> r.exc, code |-> r.code,
                    ret |-> r.ret]
        /\ UNCHANGED <<wrap, devices, lastReg>>

get_all_status ==
    \E outs \in OutcomesAll(devices) :
        \E r \in {AllStatus(devices, light, outs)} :
        /\ sent' = r.sent
        /\ routed' = <<>>
        /\ log' = <<>>
        /\ last' = [op |-> "get_all_status", outs |-> outs, each |-> r.each,
                    ret |-> r.statuses]
        /\ UNCHANGED <<light, twin, wrap, devices, lastReg>>

\* the device process: a caller holding the light or one of its decorators
NextDevice ==
    \/ Decorate
    \/ Call_get_status
    \/ Call_perform_action

\* the controller process: a caller of the facade, the light behind its routes
NextFacade ==
    \/ register_device
    \/ get_device_status
    \/ perform_device_action
    \/ get_all_status

Next == NextDevice \/ NextFacade

SpecDevice == Init /\ [][NextDevice]_vars
SpecFacade == Init /\ [][NextFacade]_vars

Spec == Init /\ [][Next]_vars

-----------------------------------------------------------------------------
(* Properties of the device process, checked under SpecDevice *)

IsPerform(l) == l.op = "perform_action"

\* C1: perform_action("power", state="on") returns true and get_status().is_on
\* is then true; state="off" returns true and is_on is then false; any other
\* state, an absent one included, returns false and leaves is_on unchanged.
C1_Power ==
    [][(IsPerform(last') /\ last'.action = "power") =>
          /\ last'.exc = ""
          /\ KwGet(last'.kw, "state") = StrV("on") =>
                 last'.ret /\ get_status(light').is_on
          /\ KwGet(last'.kw, "state") = StrV("off") =>
                 last'.ret /\ ~get_status(light').is_on
          /\ KwGet(last'.kw, "state") \notin {StrV("on"), StrV("off")} =>
                 ~last'.ret /\ light'.is_on = light.is_on]_vars

C1_Witness ==
    /\ IsPerform(last) /\ last.action = "power"
    /\ KwGet(last.kw, "state") = StrV("off")
    /\ last.ret /\ ~light.is_on
    /\ light.brightness # IntV(DefaultBrightness)

\* C2: for every integer L, perform_action("brightness", level=L) returns true
\* and sets brightness to L when 0 <= L <= 100, and returns false leaving
\* brightness unchanged when L < 0 or L > 100.
C2_Brightness ==
    [][(/\ IsPerform(last') /\ last'.action = "brightness"
        /\ KwGet(last'.kw, "level").t = "int") =>
          /\ last'.exc = ""
          /\ IF MinLevel <= KwGet(last'.kw, "level").i /\ KwGet(last'.kw, "level").i <= MaxLevel
             THEN last'.ret /\ light'.brightness = IntV(KwGet(last'.kw, "level").i)
             ELSE ~last'.ret /\ light'.brightness = light.brightness]_vars

C2_Witness ==
    /\ IsPerform(last) /\ last.action = "brightness"
    /\ KwGet(last.kw, "level") = IntV(MaxLevel)
    /\ last.ret /\ light.brightness = IntV(MaxLevel)

\* C3: perform_action never raises; an unknown action name, a "brightness"
\* action without level and a "power" action without state end with the value
\* false and leave is_on and brightness unchanged.
Rejected(action, kw) ==
    \/ action \notin {"power", "brightness"}
    \/ action = "brightness" /\ KwGet(kw, "level") = NoneV
    \/ action = "power" /\ KwGet(kw, "state") = NoneV

C3_NeverRaises ==
    [][IsPerform(last') =>
          /\ last'.exc = ""
          /\ Rejected(last'.action, last'.kw) => ~last'.ret /\ light' = light]_vars

\* C4: a call made through a LoggingDeviceDecorator, at any nesting depth,
\* returns what the same call made directly on the underlying device returns,
\* and leaves the device in the same state.
C4_Transparent ==
    /\ light = twin
    /\ IsPerform(last) => last.exc = last.direct.exc /\ last.ret = last.direct.ret
    /\ last.op = "get_status" => last.ret = last.direct

C4_Witness ==
    /\ IsPerform(last) /\ last.depth = wrap /\ wrap >= 2
    /\ Len(log) = last.depth
    /\ last.action = "brightness" /\ last.ret
    /\ light.brightness = IntV(MinLevel) /\ light.is_on

\* C10: brightness is always an integer in 0..100; get_status never changes
\* the state, a "power" action never changes brightness and a "brightness"
\* action never changes is_on.
C10_State == light.brightness.t = "int" /\ light.brightness.i \in MinLevel..MaxLevel

C10_Step ==
    /\ last'.op = "get_status" => light' = light
    /\ (IsPerform(last') /\ last'.action = "power") => light'.brightness = light.brightness
    /\ (IsPerform(last') /\ last'.action = "brightness") => light'.is_on = light.is_on

C10_LightInvariant == []C10_State /\ [][C10_Step]_vars

-----------------------------------------------------------------------------
(* Properties of the facade, checked under SpecFacade *)

IsLookup(l) == l.op \in {"get_device_status", "perform_device_action"}
IsAction(l) == l.op = "perform_device_action"
PowerOn == Kw1("state", StrV("on"))

\* C5: for an identity that is not in the registry, get_device_status returns
\* None and perform_device_action returns false, without any network request
\* and without changing the registry.
C5_Unknown ==
    [][(IsLookup(last') /\ ~DictHas(devices, last'.id)) =>
          /\ last'.op = "get_device_status" => last'.ret = None
          /\ IsAction(last') => last'.ret = FALSE /\ last'.exc = ""
          /\ sent' = <<>>
          /\ routed' = <<>>
          /\ devices' = devices
          /\ light' = light]_vars

C5_Witness ==
    /\ IsAction(last) /\ ~DictHas(devices, last.id)
    /\ devices # <<>>
    /\ ~last.ret /\ sent = <<>>

\* C6: for a registered identity, perform_device_action issues one request,
\* a POST to the action endpoint of the registered address, and returns true
\* iff the device answered with a success status; a network failure, a
\* timeout or a non-success answer gives false; the call never raises.
SuccessStatus(code) == code \in HttpOk..(HttpOk + 99)

Present(opt) == opt # None

C7_AllStatus ==
    last.op = "get_all_status" =>
        /\ Len(last.each) = Len(devices)
        /\ last.ret = Unwrap(SelectSeq(last.each, Present))

\* C8: the registry maps every identity ever registered to the address of its
\* latest register_device; nothing is removed, the lookups leave the registry
\* unchanged and send their request to that address.
C8_State ==
    /\ \A id \in DeviceIds :
          /\ DictHas(devices, id) <=> lastReg[id] # <<>>
          /\ DictHas(devices, id) => DictGet(devices, id) = lastReg[id][1]
    /\ \A j, k \in 1..Len(devices) : devices[j].id = devices[k].id => j = k
    /\ (IsLookup(last) /\ DictHas(devices, last.id)) =>
          /\ sent[1].host = lastReg[last.id][1].host
          /\ sent[1].port = lastReg[last.id][1].port

C8_Step ==
    /\ \A id \in DeviceIds : DictHas(devices, id) => DictHas(devices', id)
    /\ last'.op = "register_device" =>
          /\ DictGet(devices', last'.id) = last'.addr
          /\ \A id \in DeviceIds \ {last'.id} :
                DictHas(devices, id) => DictGet(devices', id) = DictGet(devices, id)
    /\ last'.op # "register_device" => devices' = devices

C8_Registry == []C8_State /\ [][C8_Step]_vars

C8_Witness ==
    /\ last.op = "register_device"
    /\ Len(devices) = 2 /\ devices[1].id = last.id
    /\ devices[1].addr = OtherAddr /\ devices[2].addr = OtherAddr

\* C9: with L1 registered at 127.0.0.1:8002 and reachable,
\* perform_device_action(L1, "power", state="on") sends POST /power/on, the
\* route calls perform_action("power", state="on"), the facade returns true
\* and the get_device_status(L1) that follows returns the light's status with
\* is_on true (brightness 50 on a fresh light); and the facade returns false
\* whenever the route's perform_action returned false.
AtLight(reg, id) == DictHas(reg, id) /\ DictGet(reg, id) = LightAddr

C9_EndToEnd ==
    [][/\ (/\ IsAction(last') /\ last'.id = LightId /\ AtLight(devices, LightId)
           /\ last'.out.net = "ok" /\ last'.action = "power" /\ last'.kw = PowerOn) =>
             /\ sent' = <<[method |-> "POST", host |-> "127.0.0.1", port |-> DefaultPort,
                           path |-> <<"power", "on">>]>>
             /\ routed' = <<[action |-> "power", kw |-> PowerOn, exc |-> "", ret |-> TRUE]>>
             /\ last'.ret
             /\ light'.is_on
       /\ (/\ IsAction(last) /\ last.id = LightId /\ AtLight(devices, LightId)
           /\ last.action = "power" /\ last.kw = PowerOn /\ last.ret
           /\ last'.op = "get_device_status" /\ last'.id = LightId
           /\ last'.out.net = "ok") =>
             /\ last'.ret = <<[device_id |-> "L1", type |-> "smart_light", is_on |-> TRUE,
                               brightness |-> light.brightness,
                               connection |-> "127.0.0.1:8002"]>>
             /\ light.brightness \in {IntV(n) : n \in MinLevel..MaxLevel}
       /\ (IsAction(last') /\ routed' # <<>> /\ ~routed'[1].ret) => ~last'.ret]_vars

C9_Witness ==
    /\ IsAction(last) /\ last.id = LightId /\ AtLight(devices, LightId)
    /\ last.action = "power" /\ last.kw = PowerOn /\ last.ret
    /\ light = [is_on |-> TRUE, brightness |-> IntV(DefaultBrightness)]
    /\ sent # <<>> /\ sent[1].path = <<"power", "on">>
====
